---- MODULE Spec2Model ----
(***************************************************************************)
(* Telepathy: the nova.astrometry.net client (src/client.py), the          *)
(* submission poller solve_web (src/telepathy/astrometry.py) and the       *)
(* pointing-correction loop Session.plate_solve                            *)
(* (src/telepathy/control.py).                                             *)
(*                                                                         *)
(* The specifications of the module share its variables:                   *)
(*   SpecClient    a caller invoking Client.login / Client.upload in any   *)
(*                 order against an arbitrary service;                     *)
(*   SpecSolve     one run of solve_web, statement by statement;           *)
(*   SpecSolveLive the same run against a slow service, with fairness;     *)
(*   SpecPlate     invocations of Session.plate_solve on a Session;        *)
(*   SpecSession   plate_solve and the other Session methods, in any       *)
(*                 order;                                                  *)
(*   SpecArgs      _get_upload_args applied to bounded keyword sets;       *)
(*   SpecTol       pointing_error and within_tolerance applied to bounded  *)
(*                 coordinates.                                            *)
(***************************************************************************)
EXTENDS Integers, Sequences, FiniteSets, TLC

VARIABLES
    \* ---- Client (src/client.py) ----
    session,      \* Client.session: None or the token kept by login
    lastReq,      \* the last request handed to urlopen by send_request
    lastResp,     \* the service's answer to it
    lastOut,      \* what the last client call gave its caller
    nSent,        \* number of requests handed to urlopen
    \* ---- solve_web (src/telepathy/astrometry.py) ----
    spc,          \* position in solve_web
    subid,        \* local subid
    upi,          \* number of iterations of the upload loop entered
    now,          \* time.time()
    start,        \* local start
    jobid,        \* local jobid (first entry of the last job list)
    status,       \* local status (answer of the last job-status poll)
    sres,         \* what solve_web gave its caller
    gets,         \* per kind, how many requests.get calls were made
    lastGet,      \* the last requests.get call made by the poller
    lastAns,      \* the decoded answer to it
    emptyCnt,     \* submission polls answered with an empty/null job list
    subAtFirstJob,\* submission polls made when the first job poll was made
    expired,      \* the last deadline test found the deadline exceeded
    lateGets,     \* requests made after the deadline was found exceeded
    solvingCnt,   \* job-status polls answered `solving`
    firstJob,     \* the job id of the first job-status poll
    \* ---- Session.plate_solve (src/telepathy/control.py) ----
    ppc,          \* position in plate_solve
    plate_solved, \* Session._plate_solved
    targets,      \* Session.targets
    target,       \* argument target (after defaulting)
    tol,          \* argument tol
    attempts,     \* argument attempts
    i,            \* loop variable i
    solution,     \* local solution of the current attempt
    telescope,    \* the mount handle's properties
    camera,       \* the camera handle's properties
    pexc,         \* exception that left plate_solve, or None
    cnt,          \* per kind, how many commands this invocation issued
    hist,         \* per attempt of this invocation, what the solver gave
    flagAtCall,   \* value of _plate_solved when the last method was called
    trace,        \* the events of this invocation, in the order they happened
    shot,         \* the last take_image call of this invocation and its outcome
    mountCmd,     \* the last status-checked mount call and what the mount
                  \* reported when its checks before the command were made
    sessOp,       \* the last Session method a caller invoked, its outcome
                  \* when it was not plate_solve
    calls,        \* number of Session methods invoked so far
    \* ---- calls of the pure functions ----
    hints,        \* the **kwargs given to _get_upload_args
    upargs,       \* what _get_upload_args gave for them
    tolIn,        \* arguments of pointing_error and within_tolerance
    tolOut        \* what they gave

clientVars == <<session, lastReq, lastResp, lastOut, nSent>>
solveVars  == <<spc, subid, upi, now, start, jobid, status, sres, gets,
                lastGet, lastAns, emptyCnt, subAtFirstJob, expired, lateGets,
                solvingCnt, firstJob>>
plateVars  == <<ppc, plate_solved, targets, target, tol, attempts, i,
                solution, telescope, camera, pexc, cnt, hist, flagAtCall,
                trace, shot, mountCmd, sessOp, calls>>
pureVars   == <<hints, upargs, tolIn, tolOut>>
vars == <<clientVars, solveVars, plateVars, pureVars>>

None   == "None"      \* Python's None
Absent == "<absent>"  \* a key a JSON object does not have

(***************************************************************************)
(* Python values that travel in upload arguments.  A float is kept as a    *)
(* whole number of halves (n = 3 is 1.5), so that int() truncates and      *)
(* str() renders something other than the argument.                        *)
(***************************************************************************)
PyStr(x)   == [t |-> "str",   s |-> x,  n |-> 0, l |-> <<>>]
PyInt(x)   == [t |-> "int",   s |-> "", n |-> x, l |-> <<>>]
PyFloat(h) == [t |-> "float", s |-> "", n |-> h, l |-> <<>>]
PyBool(b)  == [t |-> "bool",  s |-> "", n |-> IF b THEN 1 ELSE 0, l |-> <<>>]
PyList(q)  == [t |-> "list",  s |-> "", n |-> 0, l |-> q]
PyRaise(e) == [t |-> "raise", s |-> e,  n |-> 0, l |-> <<>>]

\* float(s) for the strings of the model, in halves; -1 where it raises.
ParseFloat(x) == CASE x = "2" -> 4 [] x = "1.5" -> 3 [] OTHER -> -1
\* int(s) for the strings of the model; -1 where it raises.
ParseInt(x)   == CASE x = "2" -> 2 [] OTHER -> -1
\* list(s): the characters of the strings of the model.
StrChars(x)   == CASE x = ""    -> <<>>
                   [] x = "d"   -> <<"d">>
                   [] x = "y"   -> <<"y">>
                   [] x = "n"   -> <<"n">>
                   [] x = "2"   -> <<"2">>
                   [] x = "1.5" -> <<"1", ".", "5">>
                   [] OTHER     -> <<"d", "e", "g", "w", "i", "d", "t", "h">>

RECURSIVE JoinStr(_)
JoinStr(q) == IF q = <<>> THEN ""
              ELSE IF Len(q) = 1 THEN Head(q)
              ELSE Head(q) \o ", " \o JoinStr(Tail(q))

\* typ(val) of _get_upload_args: the constructor typ applied to val.
PyConv(typ, v) ==
    CASE typ = "str" ->
           CASE v.t = "str"   -> v
             [] v.t = "int"   -> PyStr(ToString(v.n))
             [] v.t = "float" -> PyStr(ToString(v.n \div 2) \o
                                       (IF v.n % 2 = 0 THEN ".0" ELSE ".5"))
             [] v.t = "bool"  -> PyStr(IF v.n = 1 THEN "True" ELSE "False")
             [] OTHER         -> PyStr("[" \o JoinStr(v.l) \o "]")
      [] typ = "float" ->
           CASE v.t = "str"   -> IF ParseFloat(v.s) < 0 THEN PyRaise("ValueError")
                                 ELSE PyFloat(ParseFloat(v.s))
             [] v.t = "int"   -> PyFloat(2 * v.n)
             [] v.t = "float" -> v
             [] v.t = "bool"  -> PyFloat(2 * v.n)
             [] OTHER         -> PyRaise("TypeError")
      [] typ = "int" ->
           CASE v.t = "str"   -> IF ParseInt(v.s) < 0 THEN PyRaise("ValueError")
                                 ELSE PyInt(ParseInt(v.s))
             [] v.t = "int"   -> v
             [] v.t = "float" -> PyInt(v.n \div 2)
             [] v.t = "bool"  -> PyInt(v.n)
             [] OTHER         -> PyRaise("TypeError")
      [] typ = "bool" ->
           CASE v.t = "str"   -> PyBool(v.s # "")
             [] v.t = "list"  -> PyBool(v.l # <<>>)
             [] OTHER         -> PyBool(v.n # 0)
      [] OTHER ->  \* list
           CASE v.t = "str"   -> PyList(StrChars(v.s))
             [] v.t = "list"  -> v
             [] OTHER         -> PyRaise("TypeError")

\* The (key, default, typ) table of _get_upload_args, in its order.
UploadKeys ==
    << <<"allow_commercial_use", "d", "str">>,
       <<"allow_modifications", "d", "str">>,
       <<"publicly_visible", "y", "str">>,
       <<"scale_units", None, "str">>,
       <<"scale_type", None, "str">>,
       <<"scale_lower", None, "float">>,
       <<"scale_upper", None, "float">>,
       <<"scale_est", None, "float">>,
       <<"scale_err", None, "float">>,
       <<"center_ra", None, "float">>,
       <<"center_dec", None, "float">>,
       <<"parity", None, "int">>,
       <<"radius", None, "float">>,
       <<"downsample_factor", None, "int">>,
       <<"positional_error", None, "float">>,
       <<"tweak_order", None, "int">>,
       <<"crpix_center", None, "bool">>,
       <<"invert", None, "bool">>,
       <<"image_width", None, "int">>,
       <<"image_height", None, "int">>,
       <<"x", None, "list">>,
       <<"y", None, "list">>,
       <<"album", None, "str">> >>

EmptyDict == [k \in {} |-> PyStr("")]
RaisedDict(e) == [raised |-> e]
IsRaised(d) == DOMAIN d = {"raised"}

\* The loop of _get_upload_args from table row idx on; a conversion that
\* raises ends the call with that exception.
RECURSIVE UploadArgsFrom(_, _, _)
UploadArgsFrom(kwargs, idx, args) ==
    IF idx > Len(UploadKeys) THEN args
    ELSE LET key     == UploadKeys[idx][1]
             default == UploadKeys[idx][2]
             typ     == UploadKeys[idx][3]
         IN  IF key \in DOMAIN kwargs
             THEN LET val == PyConv(typ, kwargs[key])
                  IN  IF val.t = "raise" THEN RaisedDict(val)
                      ELSE UploadArgsFrom(kwargs, idx + 1, (key :> val) @@ args)
             ELSE IF default # None
             THEN UploadArgsFrom(kwargs, idx + 1, (key :> PyStr(default)) @@ args)
             ELSE UploadArgsFrom(kwargs, idx + 1, args)

\* _get_upload_args that hands on the keywords the table does not know.
GetUploadArgsKeepsUnknown(kwargs) ==
    LET r == UploadArgsFrom(kwargs, 1, EmptyDict)
    IN  IF IsRaised(r) THEN r ELSE r @@ kwargs
_get_upload_args(kwargs) == UploadArgsFrom(kwargs, 1, EmptyDict)

(***************************************************************************)
(* Client (src/client.py)                                                  *)
(***************************************************************************)
MaxSent == 2   \* requests a caller of SpecClient makes

Tokens  == {"tok1", "tok2"}
SubIds  == {"sub1", "sub2"}
ApiKeys == {"key1"}

\* What urlopen can give: a JSON object (http = "ok"), an HTTPError, or
\* another URLError.  The JSON object's keys are Absent when it lacks them.
MkResp(h, st, em, se, su) ==
    [http |-> h, status |-> st, errormessage |-> em, session |-> se, subid |-> su]
NoResp == MkResp(None, Absent, Absent, Absent, Absent)
Responses ==
    { MkResp("ok", st, Absent, se, Absent) :
        st \in {"success", "fail", Absent}, se \in {Absent, None, ""} \cup Tokens }
    \cup { MkResp("ok", st, Absent, Absent, su) :
        st \in {"success", "fail", Absent}, su \in {None} \cup SubIds }
    \cup { MkResp("ok", "error", em, se, Absent) :
        em \in {Absent, "bad apikey"}, se \in {Absent, "tok1"} }
    \cup { MkResp("HTTPError", Absent, Absent, Absent, Absent),
           MkResp("URLError", Absent, Absent, Absent, Absent) }

NoReq == [service |-> None, args |-> EmptyDict, multipart |-> FALSE]

Returned(v)  == [kind |-> "return", exc |-> None, msg |-> "", value |-> v]
ReturnedNone == [kind |-> "none",   exc |-> None, msg |-> "", value |-> NoResp]
Raised(e, m) == [kind |-> "raise",  exc |-> e,    msg |-> m,  value |-> NoResp]
NoOut        == [kind |-> None,     exc |-> None, msg |-> "", value |-> NoResp]

\* result.get(key, default) on the decoded JSON object.
Get(result, key, default) ==
    IF result[key] = Absent THEN default ELSE result[key]

\* send_request seen without its status test: a server error is returned
\* like any other result.
SendRequestKeepsError(sess, service, args, multipart, resp) ==
    [req |-> [service |-> service,
              args |-> IF sess # None THEN ("session" :> PyStr(sess)) @@ args
                       ELSE args,
              multipart |-> multipart],
     out |-> CASE resp.http = "URLError"  -> Raised("URLError", "")
               [] resp.http = "HTTPError" -> ReturnedNone
               [] OTHER -> Returned(resp)]

\* send_request that never adds the session to the arguments.
SendRequestDropsSession(sess, service, args, multipart, resp) ==
    [req |-> [service |-> service, args |-> args, multipart |-> multipart],
     out |-> CASE resp.http = "URLError"  -> Raised("URLError", "")
               [] resp.http = "HTTPError" -> ReturnedNone
               [] Get(resp, "status", None) = "error" ->
                    Raised("RequestError",
                           "server error message: "
                             \o Get(resp, "errormessage", "(none)"))
               [] OTHER -> Returned(resp)]

\* Client.send_request: the request built (the session is added to the
\* arguments when the client holds one) and what the call gives: the
\* decoded result, RequestError on status "error", None after an HTTPError
\* (the except branch returns nothing), any other URLError unhandled.
SendRequest(sess, service, args, multipart, resp) ==
    [req |-> [service |-> service,
              args |-> IF sess # None THEN ("session" :> PyStr(sess)) @@ args
                       ELSE args,
              multipart |-> multipart],
     out |-> CASE resp.http = "URLError"  -> Raised("URLError", "")
               [] resp.http = "HTTPError" -> ReturnedNone
               [] Get(resp, "status", None) = "error" ->
                    Raised("RequestError",
                           "server error message: "
                             \o Get(resp, "errormessage", "(none)"))
               [] OTHER -> Returned(resp)]

\* Client.login: the new value of Client.session, the request sent and the
\* outcome.  login returns nothing; result.get on the None left by an
\* HTTPError is an AttributeError.
ClientLogin(sess, apikey, resp) ==
    LET r == SendRequest(sess, "login", ("apikey" :> PyStr(apikey)), FALSE, resp)
    IN  CASE r.out.kind = "raise" -> [session |-> sess, req |-> r.req, out |-> r.out]
          [] r.out.kind = "none"  ->
               [session |-> sess, req |-> r.req, out |-> Raised("AttributeError", "")]
          [] OTHER ->
               LET sess2 == Get(r.out.value, "session", None)
               IN  IF sess2 = None \/ sess2 = ""
                   THEN [session |-> sess, req |-> r.req,
                         out |-> Raised("RequestError", "no session in result")]
                   ELSE [session |-> sess2, req |-> r.req, out |-> ReturnedNone]

\* Client.upload: fn is None or a file name, readable says whether open()
\* succeeds.  sent is whether a request reached urlopen.
ClientUpload(sess, fn, readable, kwargs, resp) ==
    LET args == _get_upload_args(kwargs)
    IN  IF IsRaised(args)
        THEN [sent |-> FALSE, req |-> NoReq, out |-> Raised(args.raised.s, "")]
        ELSE IF fn # None /\ ~readable
        THEN [sent |-> FALSE, req |-> NoReq, out |-> Raised("IOError", "")]
        ELSE LET r == SendRequest(sess, "upload", args, fn # None, resp)
             IN  [sent |-> TRUE, req |-> r.req, out |-> r.out]

\* The keyword arguments solve_web gives to upload, and a few others.
SolveKwargs(ra, dec, radius) ==
    [scale_units |-> PyStr("degwidth"), center_ra |-> PyFloat(ra),
     center_dec |-> PyFloat(dec), radius |-> PyFloat(radius)]
KwargsChoices ==
    { EmptyDict,
      SolveKwargs(3, 4, 3),
      [publicly_visible |-> PyStr("n"), parity |-> PyFloat(3)],
      [scale_lower |-> PyStr("d")],
      [bogus |-> PyInt(2)] }

InitClient ==
    /\ session = None
    /\ lastReq = NoReq
    /\ lastResp = NoResp
    /\ lastOut = [op |-> None] @@ NoOut
    /\ nSent = 0

\* A caller invokes c.login(apikey).
Login ==
    /\ nSent < MaxSent
    /\ \E apikey \in ApiKeys, resp \in Responses :
         \E r \in {ClientLogin(session, apikey, resp)} :
             /\ session' = r.session
             /\ lastReq' = r.req
             /\ lastResp' = resp
             /\ lastOut' = [op |-> "login"] @@ r.out
             /\ nSent' = nSent + 1

\* A caller invokes c.upload(fn, **kwargs).
Upload ==
    /\ nSent < MaxSent
    /\ \E fn \in {None, "output.fits"}, readable \in BOOLEAN,
          kwargs \in KwargsChoices, resp \in Responses :
         /\ (fn = None => readable)
         /\ \E r \in {ClientUpload(session, fn, readable, kwargs, resp)} :
             /\ session' = session
             /\ lastReq' = r.req
             /\ lastResp' = IF r.sent THEN resp ELSE NoResp
             /\ lastOut' = [op |-> "upload"] @@ r.out
             /\ nSent' = IF r.sent THEN nSent + 1 ELSE nSent

(***************************************************************************)
(* solve_web (src/telepathy/astrometry.py)                                 *)
(***************************************************************************)
TIMEOUT    == 600  \* astrometry.TIMEOUT, seconds
MaxPolls   == 4    \* submission-status polls of one run
ReqLatency == 300  \* seconds a slow request takes (a fast one takes 0)

JobIds    == {"job1", "job2"}
Statuses  == {"solving", "success", "failure", "queued", "exotic"}
\* The "jobs" list of a submission-status answer; None is a JSON null.
JobLists  == { <<>>, <<None>>, <<"job1">>, <<"job2">>, <<None, "job1">>,
               <<"job2", "job1">> }
Coords    == 0 .. 2   \* degrees, whole numbers
Latencies == {0, ReqLatency}

NoResult      == [kind |-> None,       exc |-> None, ra |-> 0, dec |-> 0]
SolveNone     == [kind |-> "none",     exc |-> None, ra |-> 0, dec |-> 0]
SolveRaise(e) == [kind |-> "raise",    exc |-> e,    ra |-> 0, dec |-> 0]
Solved(a, d)  == [kind |-> "solution", exc |-> None, ra |-> a, dec |-> d]

\* requests.get(url): a plain GET of the url, nothing else attached.
NoGet == [kind |-> None, id |-> None, session |-> None]
NoAns == [jobs |-> <<>>, status |-> None, ra |-> 0, dec |-> 0]
RequestsGet(kind, id) == [kind |-> kind, id |-> id, session |-> None]

\* Line 65 with a deadline that never passes.
PollNeverExpires(t, t0) == FALSE
\* Line 65 with the subtraction turned round.
PollExpiredReversed(t, t0) == t0 - t > TIMEOUT
\* Line 65: the deadline test at the head of every poll iteration.
PollExpired(t, t0) == t - t0 > TIMEOUT

\* Line 69 without its second test.
JobListEmptyOnly(jobs) == jobs = <<>>
\* Line 69: not jobid_list or not jobid_list[0].
JobListEmpty(jobs) == jobs = <<>> \/ jobs[1] = None

\* Line 73 with the first job id kept once it is known.
KeepFirstJobId(old, jobs) == IF old # None THEN old ELSE jobs[1]
\* Line 73: jobid = jobid_list[0], of the list just received.
NextJobId(old, jobs) == jobs[1]

\* Lines 76-86 with queued treated like solving.
StatusBranchQueuedWaits(st) ==
    CASE st \in {"solving", "queued"} -> "sleep"
      [] st = "success" -> "results"
      [] OTHER          -> "none"
\* Lines 76-86: what the poller does with a job status.
StatusBranch(st) ==
    CASE st = "solving" -> "sleep"
      [] st = "success" -> "results"
      [] OTHER          -> "none"

\* Lines 51-57: one iteration of the upload loop, given what c.upload gave.
\* An exception of upload leaves solve_web; subscripting None or a missing
\* key raises.
UploadBranch(out) ==
    CASE out.kind = "raise" -> [to |-> "raise", exc |-> out.exc, subid |-> None]
      [] out.kind = "none"  -> [to |-> "raise", exc |-> "TypeError", subid |-> None]
      [] out.value.status = Absent ->
           [to |-> "raise", exc |-> "KeyError", subid |-> None]
      [] out.value.status # "success" ->
           [to |-> "retry", exc |-> None, subid |-> None]
      [] out.value.subid = Absent ->
           [to |-> "raise", exc |-> "KeyError", subid |-> None]
      [] OTHER -> [to |-> "break", exc |-> None, subid |-> out.value.subid]

\* get_results: the ra/dec of the job's calibration.
get_results(id, calibration) == Solved(calibration.ra, calibration.dec)

InitSolveLocals ==
    /\ subid = None
    /\ upi = 0
    /\ now = 0
    /\ start = 0
    /\ jobid = None
    /\ status = None
    /\ sres = NoResult
    /\ gets = [sub |-> 0, job |-> 0, info |-> 0]
    /\ lastGet = NoGet
    /\ lastAns = NoAns
    /\ emptyCnt = 0
    /\ subAtFirstJob = [sub |-> 0, empty |-> 0]
    /\ expired = FALSE
    /\ lateGets = 0
    /\ solvingCnt = 0
    /\ firstJob = None

pollVars == <<gets, lastGet, lastAns, emptyCnt, subAtFirstJob, expired, lateGets,
              solvingCnt, firstJob, jobid, status, start, now>>

\* Lines 43-45: c = Client(apiurl=url); c.login(api_key); subid = None.
SolveLogin ==
    /\ spc = "login"
    /\ \E resp \in Responses :
         \E r \in {ClientLogin(None, "key1", resp)} :
             /\ session' = r.session
             /\ lastReq' = r.req
             /\ lastResp' = resp
             /\ lastOut' = [op |-> "login"] @@ r.out
             /\ nSent' = nSent + 1
             /\ IF r.out.kind = "raise"
                THEN spc' = "raised" /\ sres' = SolveRaise(r.out.exc)
                ELSE spc' = "upload" /\ sres' = sres
    /\ subid' = None
    /\ UNCHANGED <<upi, now, start, jobid, status, gets, lastGet, lastAns,
                   emptyCnt, subAtFirstJob, expired, lateGets, solvingCnt,
                   firstJob>>

\* Lines 50-57: one iteration of "for i in range(2)".
SolveUpload ==
    /\ spc = "upload"
    /\ upi < 2
    /\ \E readable \in BOOLEAN, resp \in Responses :
         \E r \in {ClientUpload(session, "output.fits", readable,
                                 SolveKwargs(3, 4, 3), resp)} :
         \E b \in {UploadBranch(r.out)} :
             /\ lastReq' = r.req
             /\ lastResp' = IF r.sent THEN resp ELSE NoResp
             /\ lastOut' = [op |-> "upload"] @@ r.out
             /\ nSent' = IF r.sent THEN nSent + 1 ELSE nSent
             /\ upi' = upi + 1
             /\ subid' = b.subid
             /\ CASE b.to = "raise" ->
                       spc' = "raised" /\ sres' = SolveRaise(b.exc)
                  [] b.to = "break" -> spc' = "check_subid" /\ sres' = sres
                  [] OTHER ->
                       /\ spc' = IF upi + 1 < 2 THEN "upload" ELSE "check_subid"
                       /\ sres' = sres
    /\ UNCHANGED <<session, pollVars>>

\* Lines 59-63: raise UploadError without a subid, else start the clock.
SolveCheckSubid ==
    /\ spc = "check_subid"
    /\ IF subid = None
       THEN spc' = "raised" /\ sres' = SolveRaise("UploadError") /\ start' = start
       ELSE spc' = "poll_check" /\ sres' = sres /\ start' = now
    /\ UNCHANGED <<clientVars, subid, upi, now, jobid, status, gets, lastGet,
                   lastAns, emptyCnt, subAtFirstJob, expired, lateGets,
                   solvingCnt, firstJob>>

\* Lines 64-66: the head of the poll loop.
SolvePollCheck ==
    /\ spc = "poll_check"
    /\ expired' = (now - start > TIMEOUT)
    /\ IF PollExpired(now, start)
       THEN spc' = "raised" /\ sres' = SolveRaise("TimeoutError")
       ELSE spc' = "get_sub" /\ sres' = sres
    /\ UNCHANGED <<clientVars, subid, upi, now, start, jobid, status, gets,
                   lastGet, lastAns, emptyCnt, subAtFirstJob, lateGets,
                   solvingCnt, firstJob>>

\* Lines 68-73: the submission-status poll.
SolveGetSubmission ==
    /\ spc = "get_sub"
    /\ gets.sub < MaxPolls
    /\ \E jobs \in JobLists, d \in Latencies :
         /\ now' = now + d
         /\ lastAns' = [NoAns EXCEPT !.jobs = jobs]
         /\ emptyCnt' = IF jobs = <<>> \/ jobs[1] = None
                         THEN emptyCnt + 1 ELSE emptyCnt
         /\ IF JobListEmpty(jobs)
            THEN spc' = "sleep" /\ jobid' = jobid
            ELSE spc' = "get_job" /\ jobid' = NextJobId(jobid, jobs)
    /\ gets' = [gets EXCEPT !.sub = @ + 1]
    /\ lastGet' = RequestsGet("submissions", subid)
    /\ lateGets' = IF expired THEN lateGets + 1 ELSE lateGets
    /\ UNCHANGED <<clientVars, subid, upi, start, status, sres, subAtFirstJob,
                   expired, solvingCnt, firstJob>>

\* Lines 70 and 77: time.sleep(1); continue.
SolveSleep ==
    /\ spc = "sleep"
    /\ now' = now + 1
    /\ spc' = "poll_check"
    /\ UNCHANGED <<clientVars, subid, upi, start, jobid, status, sres, gets,
                   lastGet, lastAns, emptyCnt, subAtFirstJob, expired,
                   lateGets, solvingCnt, firstJob>>

\* Lines 74-86: the job-status poll and what follows from the status.
SolveGetJobStatus ==
    /\ spc = "get_job"
    /\ \E st \in Statuses, d \in Latencies :
         /\ now' = now + d
         /\ status' = st
         /\ solvingCnt' = IF st = "solving" THEN solvingCnt + 1 ELSE solvingCnt
         /\ lastAns' = [NoAns EXCEPT !.status = st]
         /\ CASE StatusBranch(st) = "sleep"   -> spc' = "sleep" /\ sres' = sres
              [] StatusBranch(st) = "results" -> spc' = "get_results" /\ sres' = sres
              [] OTHER                        -> spc' = "done" /\ sres' = SolveNone
    /\ gets' = [gets EXCEPT !.job = @ + 1]
    /\ lastGet' = RequestsGet("jobs", jobid)
    /\ subAtFirstJob' = IF gets.job = 0
                        THEN [sub |-> gets.sub, empty |-> emptyCnt]
                        ELSE subAtFirstJob
    /\ lateGets' = IF expired THEN lateGets + 1 ELSE lateGets
    /\ firstJob' = IF gets.job = 0 THEN jobid ELSE firstJob
    /\ UNCHANGED <<clientVars, subid, upi, start, jobid, emptyCnt, expired>>

\* Line 82 and get_results: fetch the job's info and return its ra/dec.
SolveGetResults ==
    /\ spc = "get_results"
    /\ \E a \in Coords, d \in Coords, lat \in Latencies :
         /\ now' = now + lat
         /\ lastAns' = [NoAns EXCEPT !.ra = a, !.dec = d]
         /\ sres' = get_results(jobid, [ra |-> a, dec |-> d])
    /\ spc' = "done"
    /\ gets' = [gets EXCEPT !.info = @ + 1]
    /\ lastGet' = RequestsGet("info", jobid)
    /\ lateGets' = IF expired THEN lateGets + 1 ELSE lateGets
    /\ UNCHANGED <<clientVars, subid, upi, start, jobid, status, emptyCnt,
                   subAtFirstJob, expired, solvingCnt, firstJob>>

(***************************************************************************)
(* Session.plate_solve (src/telepathy/control.py)                          *)
(***************************************************************************)
MaxAttempts == 5   \* largest attempt budget a caller passes
MaxCalls    == 2   \* method invocations on one Session

Abs(x) == IF x < 0 THEN -x ELSE x

MkTarget(a, d) == [ra |-> a, dec |-> d]
NoTarget == [ra |-> -1, dec |-> -1]      \* the argument target=None
Targets  == {MkTarget(1, 1), MkTarget(0, 2)}
Tols     == {0, 1}

\* deg2hr: degrees to hours, (deg / 360) * 24, the hours kept in seconds of
\* time (3600 to the hour).
deg2hr(deg) == (deg * 24 * 3600) \div 360

\* pointing_error: the per-axis absolute offsets.
pointing_error(ra, dec, tg) == <<Abs(tg.ra - ra), Abs(tg.dec - dec)>>

\* within_tolerance with the bounds excluded.
WithinToleranceStrict(error, t) == error[1] < t /\ error[2] < t
\* within_tolerance: both axes within tol, bounds included.
within_tolerance(error, t) == error[1] <= t /\ error[2] <= t

\* status_check, the asserts before the wrapped call (lines 47-49).
StatusPre(tel, slewing) == tel.CanPark /\ tel.CanSlew /\ ~slewing
\* status_check, the asserts after the wrapped call (lines 53-54).
StatusPost(tel) == tel.CanSync /\ tel.CanSetTracking

\* slew_telescope under status_check: the mount afterwards, whether
\* SlewToCoordinates was issued, and the exception if an assert failed.
slew_telescope(tel, slewing, ra, dec) ==
    IF ~StatusPre(tel, slewing)
    THEN [tel |-> tel, issued |-> FALSE, unparked |-> FALSE,
          exc |-> "AssertionError"]
    ELSE LET t2 == [tel EXCEPT !.AtPark = FALSE, !.Tracking = TRUE,
                               !.ra = deg2hr(ra), !.dec = dec]
         IN  [tel |-> t2, issued |-> TRUE, unparked |-> tel.AtPark,
              exc |-> IF StatusPost(t2) THEN None ELSE "AssertionError"]

\* sync_telescope that leaves the mount's coordinates as they were.
SyncTelescopeNoPosition(tel, slewing, ra, dec) ==
    IF ~StatusPre(tel, slewing)
    THEN [tel |-> tel, issued |-> FALSE, exc |-> "AssertionError"]
    ELSE LET t2 == [tel EXCEPT !.Tracking = TRUE]
         IN  [tel |-> t2, issued |-> TRUE,
              exc |-> IF StatusPost(t2) THEN None ELSE "AssertionError"]
\* sync_telescope that issues nothing.
SyncTelescopeSkipped(tel, slewing, ra, dec) ==
    [tel |-> tel, issued |-> FALSE, exc |-> None]
\* sync_telescope under status_check.
sync_telescope(tel, slewing, ra, dec) ==
    IF ~StatusPre(tel, slewing)
    THEN [tel |-> tel, issued |-> FALSE, exc |-> "AssertionError"]
    ELSE LET t2 == [tel EXCEPT !.Tracking = TRUE,
                               !.ra = deg2hr(ra), !.dec = dec]
         IN  [tel |-> t2, issued |-> TRUE,
              exc |-> IF StatusPost(t2) THEN None ELSE "AssertionError"]

\* No take_image call made yet.
NoShot == [available |-> FALSE, ready |-> FALSE, started |-> FALSE,
           aborted |-> FALSE, saved |-> FALSE, exc |-> "<no call>"]

\* take_image that leaves a timed-out exposure running.
TakeImageNeverAborts(cam, available, ready) ==
    IF ~available
    THEN [started |-> FALSE, aborted |-> FALSE, saved |-> FALSE,
          exc |-> "CameraError"]
    ELSE IF ready
    THEN [started |-> TRUE, aborted |-> FALSE, saved |-> TRUE, exc |-> None]
    ELSE [started |-> TRUE, aborted |-> FALSE, saved |-> FALSE,
          exc |-> "TimeoutError"]
\* take_image: available is camera.Connected and CameraState == 0, ready is
\* whether ImageReady comes before TIMEOUT seconds have passed.
take_image(cam, available, ready) ==
    IF ~available
    THEN [started |-> FALSE, aborted |-> FALSE, saved |-> FALSE,
          exc |-> "CameraError"]
    ELSE IF ready
    THEN [started |-> TRUE, aborted |-> FALSE, saved |-> TRUE, exc |-> None]
    ELSE [started |-> TRUE, aborted |-> cam.CanAbortExposure, saved |-> FALSE,
          exc |-> "TimeoutError"]

\* What solve_image can give plate_solve: a solution, None, or one of the
\* exceptions that leave solve_web.
SolveOutcomes ==
    { Solved(a, d) : a \in Coords, d \in Coords }
    \cup {SolveNone}
    \cup { SolveRaise(e) : e \in {"TimeoutError", "UploadError", "RequestError"} }

\* Lines 121-126 with the flag set by the last attempt of the budget too.
AfterSyncFlagOnExhaustion(ok, idx, n) ==
    IF ok THEN [flag |-> TRUE, next |-> "done"]
    ELSE IF idx + 1 < n THEN [flag |-> FALSE, next |-> "slew"]
    ELSE [flag |-> TRUE, next |-> "done"]
\* Lines 121-126 with the break of the converged branch lost.
AfterSyncNoBreak(ok, idx, n) ==
    [flag |-> ok, next |-> IF idx + 1 < n THEN "slew" ELSE "done"]
\* Lines 121-126 and the loop header: after the sync, a converged attempt
\* sets the flag and breaks; otherwise the loop goes on while i + 1 is in
\* range(attempts).
AfterSync(ok, idx, n) ==
    IF ok THEN [flag |-> TRUE, next |-> "done"]
    ELSE [flag |-> FALSE, next |-> IF idx + 1 < n THEN "slew" ELSE "done"]

\* Lines 110-112 with the unsolved frame retried.
AfterSolveRetry(sol, idx, n) ==
    CASE sol.kind = "raise" -> [next |-> "raised", exc |-> sol.exc]
      [] sol.kind = "none"  ->
           [next |-> IF idx + 1 < n THEN "slew" ELSE "done", exc |-> None]
      [] OTHER              -> [next |-> "eval", exc |-> None]
\* Lines 102-112: an exception of solve_image leaves plate_solve, None
\* breaks the loop, a solution goes on to the evaluation.
AfterSolve(sol, idx, n) ==
    CASE sol.kind = "raise" -> [next |-> "raised", exc |-> sol.exc]
      [] sol.kind = "none"  -> [next |-> "done", exc |-> None]
      [] OTHER              -> [next |-> "eval", exc |-> None]

\* What status_check saw when a wrapped mount call was made: the mount's
\* capabilities and Slewing at the asserts before the command, whether the
\* command was issued, and the exception of a failed assert.
MountCmd(op, tel, slewing, r) ==
    [op |-> op, slewing |-> slewing, CanPark |-> tel.CanPark,
     CanSlew |-> tel.CanSlew, CanSync |-> tel.CanSync,
     CanSetTracking |-> tel.CanSetTracking, issued |-> r.issued,
     exc |-> r.exc]
NoCmd == [op |-> None, slewing |-> FALSE, CanPark |-> FALSE,
          CanSlew |-> FALSE, CanSync |-> FALSE, CanSetTracking |-> FALSE,
          issued |-> FALSE, exc |-> None]
\* No Session method invoked directly yet.
NoOp == [op |-> None, exc |-> None, warned |-> FALSE, exposures |-> 0]

NoCnt == [slew |-> 0, unpark |-> 0, expose |-> 0, abort |-> 0, save |-> 0,
          solve |-> 0, sync |-> 0]

InitPlateLocals ==
    /\ ppc = "idle"
    /\ target = NoTarget
    /\ tol = 0
    /\ attempts = 0
    /\ i = 0
    /\ solution = NoResult
    /\ pexc = None
    /\ cnt = NoCnt
    /\ hist = <<>>
    /\ flagAtCall = FALSE
    /\ trace = <<>>
    /\ shot = NoShot
    /\ mountCmd = NoCmd
    /\ sessOp = NoOp
    /\ calls = 0

\* Lines 85-96: a call of plate_solve; target None takes targets[0] or
\* returns when the list is empty; range(0) runs no attempt.
PlateCall ==
    /\ ppc \in {"idle", "done", "raised"}
    /\ calls < MaxCalls
    /\ \E tg \in Targets \cup {NoTarget}, t \in Tols, n \in 0 .. MaxAttempts :
         /\ tol' = t
         /\ attempts' = n
         /\ IF tg = NoTarget /\ targets = <<>>
            THEN target' = NoTarget /\ ppc' = "done"
            ELSE /\ target' = IF tg = NoTarget THEN targets[1] ELSE tg
                 /\ ppc' = IF n > 0 THEN "slew" ELSE "done"
    /\ i' = 0
    /\ solution' = NoResult
    /\ pexc' = None
    /\ cnt' = NoCnt
    /\ hist' = <<>>
    /\ flagAtCall' = plate_solved
    /\ trace' = <<>>
    /\ shot' = NoShot
    /\ calls' = calls + 1
    /\ sessOp' = [NoOp EXCEPT !.op = "plate_solve"]
    /\ UNCHANGED <<plate_solved, targets, telescope, camera, mountCmd>>

\* Line 99: self.slew_telescope(ra=target.ra, dec=target.dec).
PlateSlew ==
    /\ ppc = "slew"
    /\ \E slewing \in BOOLEAN :
         \E r \in {slew_telescope(telescope, slewing, target.ra, target.dec)} :
             /\ telescope' = r.tel
             /\ cnt' = [cnt EXCEPT !.slew = IF r.issued THEN @ + 1 ELSE @,
                                   !.unpark = IF r.unparked THEN @ + 1 ELSE @]
             /\ trace' = IF r.issued THEN Append(trace, "slew") ELSE trace
             /\ mountCmd' = MountCmd("slew", telescope, slewing, r)
             /\ IF r.exc = None
                THEN ppc' = "expose" /\ pexc' = pexc
                ELSE ppc' = "raised" /\ pexc' = r.exc
    /\ UNCHANGED <<plate_solved, targets, target, tol, attempts, i, solution,
                   camera, hist, flagAtCall, shot, sessOp, calls>>

\* Line 100: self.take_image(...).
PlateExpose ==
    /\ ppc = "expose"
    /\ \E available \in BOOLEAN, ready \in BOOLEAN :
         \E r \in {take_image(camera, available, ready)} :
             /\ cnt' = [cnt EXCEPT !.expose = IF r.started THEN @ + 1 ELSE @,
                                   !.abort = IF r.aborted THEN @ + 1 ELSE @,
                                   !.save = IF r.saved THEN @ + 1 ELSE @]
             /\ trace' = IF r.started THEN Append(trace, "expose") ELSE trace
             /\ shot' = [available |-> available, ready |-> ready] @@ r
             /\ IF r.exc = None
                THEN ppc' = "solve" /\ pexc' = pexc
                ELSE ppc' = "raised" /\ pexc' = r.exc
    /\ UNCHANGED <<plate_solved, targets, target, tol, attempts, i, solution,
                   telescope, camera, hist, flagAtCall, mountCmd, sessOp, calls>>

\* Lines 102-112: solution = solve_image(...); None breaks.
PlateSolve ==
    /\ ppc = "solve"
    /\ \E sol \in SolveOutcomes :
         \E b \in {AfterSolve(sol, i, attempts)} :
             /\ solution' = sol
             /\ ppc' = b.next
             /\ pexc' = b.exc
             /\ i' = IF b.next = "slew" THEN i + 1 ELSE i
             /\ hist' = Append(hist,
                   CASE sol.kind = "raise" -> "raise"
                     [] sol.kind = "none"  -> "none"
                     [] Abs(target.ra - sol.ra) <= tol
                          /\ Abs(target.dec - sol.dec) <= tol -> "in"
                     [] OTHER -> "out")
    /\ cnt' = [cnt EXCEPT !.solve = @ + 1]
    /\ trace' = Append(trace, "solve")
    /\ UNCHANGED <<plate_solved, targets, target, tol, attempts, telescope,
                   camera, flagAtCall, shot, mountCmd, sessOp, calls>>

\* Lines 115-121 with the sync moved behind the tolerance test.
EvalEventsDecideFirst(synced, decided) ==
    <<"error">> \o (IF decided THEN <<"decide">> ELSE <<>>)
                \o (IF synced THEN <<"sync">> ELSE <<>>)
\* The events of lines 115-121 in their order: the error is computed
\* (115), sync_telescope is called (120; synced when SyncToCoordinates was
\* issued), and within_tolerance is tested (121; decided when the call of
\* line 120 returned).
EvalEvents(synced, decided) ==
    <<"error">> \o (IF synced THEN <<"sync">> ELSE <<>>)
                \o (IF decided THEN <<"decide">> ELSE <<>>)

\* Lines 114-126: the error, the sync, the tolerance test and the loop step.
PlateEval ==
    /\ ppc = "eval"
    /\ \E slewing \in BOOLEAN :
         \E error \in {pointing_error(solution.ra, solution.dec, target)} :
         \E r \in {sync_telescope(telescope, slewing, solution.ra, solution.dec)} :
         \E b \in {AfterSync(within_tolerance(error, tol), i, attempts)} :
             /\ telescope' = r.tel
             /\ cnt' = [cnt EXCEPT !.sync = IF r.issued THEN @ + 1 ELSE @]
             /\ trace' = trace \o EvalEvents(r.issued, r.exc = None)
             /\ mountCmd' = MountCmd("sync", telescope, slewing, r)
             /\ IF r.exc # None
                THEN /\ ppc' = "raised" /\ pexc' = r.exc
                     /\ UNCHANGED <<plate_solved, i>>
                ELSE /\ ppc' = b.next /\ pexc' = pexc
                     /\ plate_solved' = (plate_solved \/ b.flag)
                     /\ i' = IF b.next = "slew" THEN i + 1 ELSE i
    /\ UNCHANGED <<targets, target, tol, attempts, solution, camera, hist,
                   flagAtCall, shot, sessOp, calls>>

(***************************************************************************)
(* Session: the methods a caller invokes besides plate_solve               *)
(***************************************************************************)
MaxExposures == 2   \* largest Target.num_exposures

\* park_telescope under status_check: Park() is issued, the method writes
\* no other property of the mount.
park_telescope(tel, slewing) ==
    IF ~StatusPre(tel, slewing)
    THEN [tel |-> tel, issued |-> FALSE, exc |-> "AssertionError"]
    ELSE LET t2 == [tel EXCEPT !.AtPark = TRUE]
         IN  [tel |-> t2, issued |-> TRUE,
              exc |-> IF StatusPost(t2) THEN None ELSE "AssertionError"]

\* end_session: AbortExposure when the camera is not idle, park_telescope
\* when the mount is not parked.  cmd is the status-checked mount call
\* made, NoCmd when there was none.
end_session(tel, camIdle, slewing) ==
    IF tel.AtPark
    THEN [tel |-> tel, aborted |-> ~camIdle, exc |-> None, cmd |-> NoCmd]
    ELSE LET r == park_telescope(tel, slewing)
         IN  [tel |-> r.tel, aborted |-> ~camIdle, exc |-> r.exc,
              cmd |-> MountCmd("park", tel, slewing, r)]

\* The take_image calls of shoot_target from frame k on: how many
\* exposures were started and the exception that ended the loop, if any.
RECURSIVE ShootFrames(_, _, _, _)
ShootFrames(cam, frames, k, started) ==
    IF k > Len(frames) THEN [exposures |-> started, exc |-> None]
    ELSE LET r == take_image(cam, frames[k].available, frames[k].ready)
         IN  IF r.exc # None
             THEN [exposures |-> started + (IF r.started THEN 1 ELSE 0),
                   exc |-> r.exc]
             ELSE ShootFrames(cam, frames, k + 1, started + 1)

\* shoot_target: the warning when the flag is false, the slew, the
\* exposures (frames gives, per exposure, what the camera does), and
\* end_session when terminate is set.  The flag is read, never written.
shoot_target(flag, tel, cam, slewing, tg, frames, terminate, endIn) ==
    LET s1 == slew_telescope(tel, slewing, tg.ra, tg.dec)
        c1 == MountCmd("slew", tel, slewing, s1)
    IN  IF s1.exc # None
        THEN [tel |-> s1.tel, cmd |-> c1,
              op |-> [op |-> "shoot_target", exc |-> s1.exc,
                      warned |-> ~flag, exposures |-> 0]]
        ELSE LET f == ShootFrames(cam, frames, 1, 0)
             IN  IF f.exc # None \/ ~terminate
                 THEN [tel |-> s1.tel, cmd |-> c1,
                       op |-> [op |-> "shoot_target", exc |-> f.exc,
                               warned |-> ~flag, exposures |-> f.exposures]]
                 ELSE LET en == end_session(s1.tel, endIn.camIdle,
                                            endIn.slewing)
                      IN  [tel |-> en.tel,
                           cmd |-> IF en.cmd = NoCmd THEN c1 ELSE en.cmd,
                           op |-> [op |-> "shoot_target", exc |-> en.exc,
                                   warned |-> ~flag,
                                   exposures |-> f.exposures]]

\* What the camera does in the exposures of one shoot_target call: every
\* frame is delivered, except possibly the last, for which the camera is
\* unavailable or not ready in time.
GoodFrame == [available |-> TRUE, ready |-> TRUE]
FrameSeqs ==
    UNION { { [k \in 1 .. n |-> IF k < n THEN GoodFrame ELSE last] :
                last \in [available : BOOLEAN, ready : {TRUE}]
                          \cup {[available |-> TRUE, ready |-> FALSE]} } :
              n \in 0 .. MaxExposures }
\* What the hardware reports during an end_session.
EndInputs == [camIdle : BOOLEAN, slewing : BOOLEAN]
NoEndInput == [camIdle |-> TRUE, slewing |-> FALSE]

\* No plate_solve call is running: the caller may invoke another method.
SessionIdle == ppc \in {"idle", "done", "raised"} /\ calls < MaxCalls

\* Another method is entered: the locals of the plate_solve call that
\* ended before are gone, and the flag is noted as it is at this call.
LeavePlateSolve ==
    /\ ppc' = "idle"
    /\ target' = NoTarget
    /\ tol' = 0
    /\ attempts' = 0
    /\ i' = 0
    /\ solution' = NoResult
    /\ pexc' = None
    /\ cnt' = NoCnt
    /\ hist' = <<>>
    /\ trace' = <<>>
    /\ shot' = NoShot
    /\ flagAtCall' = plate_solved

\* A caller invokes session.slew_telescope(ra, dec).
SessionSlew ==
    /\ SessionIdle
    /\ \E tg \in Targets, slewing \in BOOLEAN :
         \E r \in {slew_telescope(telescope, slewing, tg.ra, tg.dec)} :
             /\ telescope' = r.tel
             /\ mountCmd' = MountCmd("slew", telescope, slewing, r)
             /\ sessOp' = [op |-> "slew_telescope", exc |-> r.exc,
                           warned |-> FALSE, exposures |-> 0]
    /\ calls' = calls + 1
    /\ LeavePlateSolve
    /\ UNCHANGED <<plate_solved, targets, camera>>

\* A caller invokes session.sync_telescope(ra, dec).
SessionSync ==
    /\ SessionIdle
    /\ \E tg \in Targets, slewing \in BOOLEAN :
         \E r \in {sync_telescope(telescope, slewing, tg.ra, tg.dec)} :
             /\ telescope' = r.tel
             /\ mountCmd' = MountCmd("sync", telescope, slewing, r)
             /\ sessOp' = [op |-> "sync_telescope", exc |-> r.exc,
                           warned |-> FALSE, exposures |-> 0]
    /\ calls' = calls + 1
    /\ LeavePlateSolve
    /\ UNCHANGED <<plate_solved, targets, camera>>

\* A caller invokes session.park_telescope().
SessionPark ==
    /\ SessionIdle
    /\ \E slewing \in BOOLEAN :
         \E r \in {park_telescope(telescope, slewing)} :
             /\ telescope' = r.tel
             /\ mountCmd' = MountCmd("park", telescope, slewing, r)
             /\ sessOp' = [op |-> "park_telescope", exc |-> r.exc,
                           warned |-> FALSE, exposures |-> 0]
    /\ calls' = calls + 1
    /\ LeavePlateSolve
    /\ UNCHANGED <<plate_solved, targets, camera>>

\* A caller invokes session.take_image(...).
SessionTakeImage ==
    /\ SessionIdle
    /\ \E available \in BOOLEAN, ready \in BOOLEAN :
         \E r \in {take_image(camera, available, ready)} :
             sessOp' = [op |-> "take_image", exc |-> r.exc,
                        warned |-> FALSE,
                        exposures |-> IF r.started THEN 1 ELSE 0]
    /\ calls' = calls + 1
    /\ LeavePlateSolve
    /\ UNCHANGED <<plate_solved, targets, telescope, camera, mountCmd>>

\* A caller invokes session.shoot_target(target, terminate).
ShootTarget ==
    /\ SessionIdle
    /\ \E tg \in Targets, slewing \in BOOLEAN, frames \in FrameSeqs,
          terminate \in BOOLEAN, endIn \in EndInputs :
         /\ ~terminate => endIn = NoEndInput
         /\ \E r \in {shoot_target(plate_solved, telescope, camera, slewing,
                                   tg, frames, terminate, endIn)} :
              /\ telescope' = r.tel
              /\ mountCmd' = r.cmd
              /\ sessOp' = r.op
    /\ calls' = calls + 1
    /\ LeavePlateSolve
    /\ UNCHANGED <<plate_solved, targets, camera>>

\* A caller invokes session.end_session().
EndSession ==
    /\ SessionIdle
    /\ \E endIn \in EndInputs :
         \E r \in {end_session(telescope, endIn.camIdle, endIn.slewing)} :
             /\ telescope' = r.tel
             /\ mountCmd' = IF r.cmd = NoCmd THEN mountCmd ELSE r.cmd
             /\ sessOp' = [op |-> "end_session", exc |-> r.exc,
                           warned |-> FALSE, exposures |-> 0]
    /\ calls' = calls + 1
    /\ LeavePlateSolve
    /\ UNCHANGED <<plate_solved, targets, camera>>

(***************************************************************************)
(* Calls of the pure functions                                             *)
(***************************************************************************)
MaxHints == 2   \* keyword arguments in one call of _get_upload_args

\* No call made yet.
NotCalled == [pending |-> TRUE]

\* Keyword names a caller passes: recognized ones of every typ of the table
\* and one the table does not have.
HintKeys == {"allow_commercial_use", "publicly_visible", "scale_lower",
             "parity", "crpix_center", "x", "bogus"}
\* Values a caller passes, of every Python type of the model.
HintValues == {PyStr("d"), PyStr("2"), PyInt(2), PyFloat(3), PyBool(TRUE),
               PyList(<<"d">>)}
\* The **kwargs dictionaries with at most MaxHints entries.
HintSets ==
    UNION { [S -> HintValues] :
              S \in {T \in SUBSET HintKeys : Cardinality(T) <= MaxHints} }

InitPureIdle ==
    /\ hints = EmptyDict
    /\ upargs = NotCalled
    /\ tolIn = NotCalled
    /\ tolOut = NotCalled

\* args = _get_upload_args(**kwargs), as Client.upload calls it.
CallGetUploadArgs ==
    /\ upargs = NotCalled
    /\ upargs' = _get_upload_args(hints)
    /\ UNCHANGED <<hints, tolIn, tolOut>>

FullCircle == 360   \* degrees of right ascension in a turn
RaSpan     == 2     \* right ascensions taken this close to 0 and to 360
MaxDec     == 2     \* declinations taken from -MaxDec to MaxDec
MaxTol     == 2     \* largest tolerance

\* Coordinates in whole units of the tolerance scale: right ascensions on
\* both sides of the 0/360 seam, declinations on both sides of 0.
RaValues  == (0 .. RaSpan) \cup (FullCircle - RaSpan .. FullCircle - 1)
DecValues == -MaxDec .. MaxDec
TolInputs == [ra : RaValues, dec : DecValues,
              target : [ra : RaValues, dec : DecValues], tol : 0 .. MaxTol]

\* plate_solve's lines 115 and 121 on their own: error =
\* pointing_error(ra, dec, target), then within_tolerance(error, tol).
CallTolerance ==
    /\ tolOut = NotCalled
    /\ \E error \in {pointing_error(tolIn.ra, tolIn.dec, tolIn.target)} :
         tolOut' = [error |-> error, ok |-> within_tolerance(error, tolIn.tol)]
    /\ UNCHANGED <<hints, upargs, tolIn>>

(***************************************************************************)
(* Specifications                                                          *)
(***************************************************************************)
InitSession ==
    /\ plate_solved = FALSE
    /\ targets \in {<<>>, <<MkTarget(0, 2)>>}
    /\ telescope \in [CanPark : BOOLEAN, CanSlew : BOOLEAN, CanSync : BOOLEAN,
                      CanSetTracking : BOOLEAN, AtPark : BOOLEAN,
                      Tracking : BOOLEAN, ra : {0}, dec : {0}]
    /\ camera \in [CanAbortExposure : BOOLEAN]

\* A Session that connects no hardware (connect_camera and
\* connect_telescope keep their default False).
InitSessionBare ==
    /\ plate_solved = FALSE
    /\ targets = <<>>
    /\ telescope = [CanPark |-> FALSE, CanSlew |-> FALSE, CanSync |-> FALSE,
                    CanSetTracking |-> FALSE, AtPark |-> FALSE,
                    Tracking |-> FALSE, ra |-> 0, dec |-> 0]
    /\ camera = [CanAbortExposure |-> FALSE]

\* A Session on a parked mount that can park and slew and a camera that
\* can abort; whether the mount can sync varies.
InitSessionCapable ==
    /\ plate_solved = FALSE
    /\ targets = <<MkTarget(0, 2)>>
    /\ telescope \in [CanPark : {TRUE}, CanSlew : {TRUE}, CanSync : BOOLEAN,
                      CanSetTracking : {TRUE}, AtPark : {TRUE},
                      Tracking : {FALSE}, ra : {0}, dec : {0}]
    /\ camera = [CanAbortExposure |-> TRUE]

InitClientSpec ==
    /\ InitClient
    /\ spc = "idle" /\ InitSolveLocals
    /\ InitPlateLocals /\ InitSessionBare
    /\ InitPureIdle
NextClient ==
    \/ Login /\ UNCHANGED <<solveVars, plateVars, pureVars>>
    \/ Upload /\ UNCHANGED <<solveVars, plateVars, pureVars>>
SpecClient == InitClientSpec /\ [][NextClient]_vars

InitSolveSpec ==
    /\ InitClient
    /\ spc = "login" /\ InitSolveLocals
    /\ InitPlateLocals /\ InitSessionBare
    /\ InitPureIdle
NextSolve ==
    \/ SolveLogin /\ UNCHANGED <<plateVars, pureVars>>
    \/ SolveUpload /\ UNCHANGED <<plateVars, pureVars>>
    \/ SolveCheckSubid /\ UNCHANGED <<plateVars, pureVars>>
    \/ SolvePollCheck /\ UNCHANGED <<plateVars, pureVars>>
    \/ SolveGetSubmission /\ UNCHANGED <<plateVars, pureVars>>
    \/ SolveSleep /\ UNCHANGED <<plateVars, pureVars>>
    \/ SolveGetJobStatus /\ UNCHANGED <<plateVars, pureVars>>
    \/ SolveGetResults /\ UNCHANGED <<plateVars, pureVars>>
SpecSolve == InitSolveSpec /\ [][NextSolve]_vars

\* solve_web against a slow service: every GET of the poll loop takes
\* ReqLatency seconds, so that the deadline is met within MaxPolls polls.
\* solve_web is one sequential flow of control whose requests all return
\* and whose sleeps all end: its next step is always taken.
NextSolveLive ==
    \/ SolveLogin /\ UNCHANGED <<plateVars, pureVars>>
    \/ SolveUpload /\ UNCHANGED <<plateVars, pureVars>>
    \/ SolveCheckSubid /\ UNCHANGED <<plateVars, pureVars>>
    \/ SolvePollCheck /\ UNCHANGED <<plateVars, pureVars>>
    \/ SolveGetSubmission /\ now' = now + ReqLatency
          /\ UNCHANGED <<plateVars, pureVars>>
    \/ SolveSleep /\ UNCHANGED <<plateVars, pureVars>>
    \/ SolveGetJobStatus /\ now' = now + ReqLatency
          /\ UNCHANGED <<plateVars, pureVars>>
    \/ SolveGetResults /\ UNCHANGED <<plateVars, pureVars>>
SpecSolveLive ==
    InitSolveSpec /\ [][NextSolveLive]_vars /\ WF_vars(NextSolveLive)

InitPlateSpec ==
    /\ InitClient
    /\ spc = "idle" /\ InitSolveLocals
    /\ InitPlateLocals /\ InitSession
    /\ InitPureIdle
NextPlate ==
    \/ PlateCall /\ UNCHANGED <<clientVars, solveVars, pureVars>>
    \/ PlateSlew /\ UNCHANGED <<clientVars, solveVars, pureVars>>
    \/ PlateExpose /\ UNCHANGED <<clientVars, solveVars, pureVars>>
    \/ PlateSolve /\ UNCHANGED <<clientVars, solveVars, pureVars>>
    \/ PlateEval /\ UNCHANGED <<clientVars, solveVars, pureVars>>
SpecPlate == InitPlateSpec /\ [][NextPlate]_vars

InitSessionSpec ==
    /\ InitClient
    /\ spc = "idle" /\ InitSolveLocals
    /\ InitPlateLocals /\ InitSessionCapable
    /\ InitPureIdle
NextSession ==
    \/ PlateCall /\ UNCHANGED <<clientVars, solveVars, pureVars>>
    \/ PlateSlew /\ UNCHANGED <<clientVars, solveVars, pureVars>>
    \/ PlateExpose /\ UNCHANGED <<clientVars, solveVars, pureVars>>
    \/ PlateSolve /\ UNCHANGED <<clientVars, solveVars, pureVars>>
    \/ PlateEval /\ UNCHANGED <<clientVars, solveVars, pureVars>>
    \/ SessionSlew /\ UNCHANGED <<clientVars, solveVars, pureVars>>
    \/ SessionSync /\ UNCHANGED <<clientVars, solveVars, pureVars>>
    \/ SessionPark /\ UNCHANGED <<clientVars, solveVars, pureVars>>
    \/ SessionTakeImage /\ UNCHANGED <<clientVars, solveVars, pureVars>>
    \/ ShootTarget /\ UNCHANGED <<clientVars, solveVars, pureVars>>
    \/ EndSession /\ UNCHANGED <<clientVars, solveVars, pureVars>>
SpecSession == InitSessionSpec /\ [][NextSession]_vars

InitArgsSpec ==
    /\ InitClient
    /\ spc = "idle" /\ InitSolveLocals
    /\ InitPlateLocals /\ InitSessionBare
    /\ hints \in HintSets
    /\ upargs = NotCalled
    /\ tolIn = NotCalled
    /\ tolOut = NotCalled
NextArgs ==
    \/ CallGetUploadArgs /\ UNCHANGED <<clientVars, solveVars, plateVars>>
SpecArgs == InitArgsSpec /\ [][NextArgs]_vars

InitTolSpec ==
    /\ InitClient
    /\ spc = "idle" /\ InitSolveLocals
    /\ InitPlateLocals /\ InitSessionBare
    /\ hints = EmptyDict
    /\ upargs = NotCalled
    /\ tolIn \in TolInputs
    /\ tolOut = NotCalled
NextTol ==
    \/ CallTolerance /\ UNCHANGED <<clientVars, solveVars, plateVars>>
SpecTol == InitTolSpec /\ [][NextTol]_vars

(***************************************************************************)
(* Properties                                                              *)
(***************************************************************************)
\* The first attempt of this invocation whose solution was within
\* tolerance on both axes, 0 when there is none.
FirstIn == IF \E k \in DOMAIN hist : hist[k] = "in"
           THEN CHOOSE k \in DOMAIN hist :
                  hist[k] = "in" /\ \A j \in 1 .. k - 1 : hist[j] # "in"
           ELSE 0
\* plate_solve returned (no exception) from a call that entered its loop
\* and got a solution from the solver on every attempt it made.
ReturnedAllSolved ==
    /\ ppc = "done"
    /\ attempts >= 1
    /\ target # NoTarget
    /\ \A k \in DOMAIN hist : hist[k] \in {"in", "out"}
Cycles(k) == cnt.slew = k /\ cnt.expose = k /\ cnt.solve = k

\* C1: when the solver gives a solution on every attempt and plate_solve
\* returns, the loop has run exactly k slew/expose/solve cycles and the flag
\* is true if attempt k <= attempts is the first one within tolerance, and
\* exactly `attempts` cycles with the flag still false (when it was false at
\* the call) if no attempt was within tolerance.
C1_ToleranceConvergence ==
    ReturnedAllSolved =>
        IF FirstIn > 0
        THEN FirstIn <= attempts /\ Cycles(FirstIn) /\ plate_solved
        ELSE Cycles(attempts) /\ (~flagAtCall => ~plate_solved)
C1_Witness ==
    /\ ReturnedAllSolved
    /\ attempts = 5
    /\ FirstIn = 3
    /\ Cycles(3)
    /\ plate_solved

\* C2: once the solver has returned None in an attempt, plate_solve is
\* over: that attempt issued no sync (the syncs are those of the earlier
\* attempts), no later slew, exposure or solve was started although
\* attempts may remain, and the flag is as it was at the call.
C2_NoneAborts ==
    (hist # <<>> /\ hist[Len(hist)] = "none") =>
        /\ ppc = "done"
        /\ Cycles(Len(hist))
        /\ cnt.sync = Len(hist) - 1
        /\ plate_solved = flagAtCall
C2_Witness ==
    /\ hist = <<"out", "none">>
    /\ attempts = 5
    /\ ppc = "done"
    /\ cnt.sync = 1
    /\ cnt.slew = 2

\* C10: with budget 5 and a solution within tolerance on attempt 1,
\* plate_solve returns after exactly one slew, one exposure, one solve and
\* one sync, with the plate-solved flag true.
C10_ConvergesOnFirstAttempt ==
    (ppc = "done" /\ attempts = 5 /\ hist = <<"in">>) =>
        /\ Cycles(1)
        /\ cnt.sync = 1
        /\ plate_solved
C10_Witness ==
    /\ ppc = "done"
    /\ attempts = 5
    /\ hist = <<"in">>
    /\ cnt.sync = 1
    /\ cnt.slew = 1
    /\ plate_solved
    /\ ~flagAtCall

\* An upload answer that reports a failure: an HTTP error, or a JSON object
\* whose status is "error" or another value that is not "success".
FailingUpload(resp) ==
    \/ resp.http = "HTTPError"
    \/ resp.http = "ok" /\ resp.status \in {"error", "fail"}

\* C3: a first failing upload answer of any kind (an "error" status and an
\* HTTP error included) is followed by a second upload attempt, and when
\* solve_web gives up on the upload it has made exactly two attempts and
\* raises UploadError.
C3_UploadRetriedOnce ==
    /\ (lastOut.op = "upload" /\ upi = 1 /\ FailingUpload(lastResp))
          => spc = "upload"
    /\ (lastOut.op = "upload" /\ spc = "raised" /\ FailingUpload(lastResp))
          => (upi = 2 /\ sres = SolveRaise("UploadError"))

\* C4: whenever the deadline test at the head of a poll iteration finds
\* more than TIMEOUT seconds gone since polling began, solve_web raises
\* TimeoutError, whether the time went waiting for a job id or for the job,
\* and no submission-status, job-status or job-info request follows; and
\* TimeoutError is raised for no other reason.
C4_PollTimeout ==
    /\ expired => (spc = "raised" /\ sres = SolveRaise("TimeoutError"))
    /\ lateGets = 0
    /\ sres = SolveRaise("TimeoutError") => (expired /\ now - start > TIMEOUT)
C4_Witness ==
    /\ expired
    /\ sres = SolveRaise("TimeoutError")
    /\ emptyCnt > 0
    /\ gets.job > 0
    /\ status = "solving"

\* C5: with N answers whose job list is empty or starts with a null id
\* before the first populated one, exactly N+1 submission-status polls
\* precede the first job-status poll, and a job-status poll is only made
\* for a known (non-null) job id.
C5_QueueingLatency ==
    /\ (gets.job = 0 /\ spc \in {"poll_check", "get_sub", "sleep", "get_job"})
          => gets.sub = emptyCnt + (IF spc = "get_job" THEN 1 ELSE 0)
    /\ gets.job > 0 => subAtFirstJob.sub = subAtFirstJob.empty + 1
    /\ spc = "get_job" => jobid \in JobIds
    /\ lastGet.kind = "jobs" => lastGet.id \in JobIds
C5_Witness ==
    /\ gets.job = 1
    /\ subAtFirstJob = [sub |-> 3, empty |-> 2]
    /\ lastGet.kind = "jobs"

\* C6: after a job-status answer `solving` the poller sleeps and goes round
\* again (to the deadline test and the next poll); after `success` it
\* fetches the job info exactly once and returns its ra/dec; after any
\* other status (queued, failure, unknown ones) it returns None at once,
\* with no exception, no job-info fetch and no further poll.
C6_OutcomeByStatus ==
    /\ (lastGet.kind = "jobs" /\ status = "solving") =>
          \/ spc \in {"sleep", "poll_check", "get_sub"} /\ sres = NoResult
          \/ spc = "raised" /\ sres = SolveRaise("TimeoutError")
    /\ (lastGet.kind = "jobs" /\ status = "success") =>
          (spc = "get_results" /\ gets.info = 0 /\ sres = NoResult)
    /\ (spc = "done" /\ status = "success") =>
          /\ gets.info = 1
          /\ lastGet = RequestsGet("info", jobid)
          /\ sres = Solved(lastAns.ra, lastAns.dec)
    /\ (status \notin {None, "solving", "success"}) =>
          /\ spc = "done"
          /\ sres = SolveNone
          /\ gets.info = 0
          /\ lastGet.kind = "jobs"
C6_Witness ==
    /\ spc = "done"
    /\ status = "queued"
    /\ sres = SolveNone
    /\ gets.job = 2
    /\ gets.info = 0

\* C7: an upload on a client that has not logged in raises and sends no
\* request, and only a login that succeeds gives the client a session.
C7_UnauthenticatedFailsFast ==
    /\ (lastOut.op = "upload" /\ session = None) =>
          (lastOut.kind = "raise" /\ lastReq = NoReq)
    /\ session # None => nSent > 0

\* C8 as claimed: once logged in, every request of solve_web, the upload
\* and the three kinds of GET, carries the session token.
C8_EveryRequestCarriesToken ==
    session # None =>
        /\ lastReq.service = "upload" =>
              ("session" \in DOMAIN lastReq.args
                 /\ lastReq.args["session"] = PyStr(session))
        /\ lastGet.kind # None => lastGet.session = session

\* C8, amended: the upload, which goes through Client.send_request, carries
\* the session token obtained at login; the submission-status, job-status
\* and job-info requests are plain GETs that carry no token.
C8_UploadCarriesToken ==
    /\ lastReq.service = "upload" =>
          /\ session \in Tokens
          /\ "session" \in DOMAIN lastReq.args
          /\ lastReq.args["session"] = PyStr(session)
    /\ lastGet.kind # None => (session \in Tokens /\ lastGet.session = None)
C8_Witness ==
    /\ spc = "done"
    /\ sres.kind = "solution"
    /\ gets.info = 1
    /\ lastReq.service = "upload"
    /\ lastReq.args["session"] = PyStr("tok2")
    /\ lastGet = RequestsGet("info", "job1")

\* A login or upload answered by a JSON object with status "error".
ErrorAnswered == lastResp.http = "ok" /\ lastResp.status = "error"
\* A login answered by a JSON object without a usable session token.
NoSessionAnswered ==
    /\ lastOut.op = "login"
    /\ lastResp.http = "ok"
    /\ lastResp.session \in {Absent, None, ""}

\* C9: a client call answered with status "error" raises RequestError with
\* the service's error message and returns no result; a login answered
\* with an error status or without a session token raises, and a login
\* that raises leaves Client.session as it was.
C9_ErrorStatusRaises ==
    [][ /\ ErrorAnswered' =>
             /\ lastOut'.kind = "raise"
             /\ lastOut'.exc = "RequestError"
             /\ lastOut'.value = NoResp
             /\ lastOut'.msg = "server error message: "
                   \o (IF lastResp'.errormessage = Absent THEN "(none)"
                       ELSE lastResp'.errormessage)
        /\ NoSessionAnswered' => lastOut'.kind = "raise"
        /\ (lastOut'.op = "login" /\ lastOut'.kind = "raise") =>
             session' = session
      ]_vars
C9_Witness ==
    /\ lastOut.op = "login"
    /\ ErrorAnswered
    /\ lastResp.errormessage = "bad apikey"
    /\ lastResp.session = "tok1"
    /\ lastOut.msg = "server error message: bad apikey"
    /\ session = "tok2"

\* The attempts of this invocation in which the solver gave a solution.
SolvedAttempts ==
    Cardinality({k \in DOMAIN hist : hist[k] \in {"in", "out"}})
\* Those of them whose evaluation (lines 114-126) has been run.
EvaluatedAttempts == SolvedAttempts - (IF ppc = "eval" THEN 1 ELSE 0)
\* The attempts found outside the tolerance and evaluated.
OutsideAttempts ==
    Cardinality({k \in DOMAIN hist : hist[k] = "out"})
      - (IF ppc = "eval" /\ hist[Len(hist)] = "out" THEN 1 ELSE 0)

\* C11 as claimed: a sync is issued only in an attempt whose error is not
\* within tolerance, exactly one in each such attempt, and an attempt
\* within tolerance stops without a sync.
C11_SyncOnlyOutsideTolerance ==
    ppc \in {"slew", "expose", "solve", "eval", "done"} =>
        cnt.sync = OutsideAttempts

\* C11, amended: every attempt in which the solver gave a solution issues
\* exactly one sync, before the tolerance test and whatever its result: the
\* syncs are as many as the evaluated attempts, a converging attempt has
\* synced the mount to the solved position when it stops, and no sync is
\* issued in an attempt without a solution.
C11_SyncEveryEvaluatedAttempt ==
    /\ ppc \in {"slew", "expose", "solve", "eval", "done"} =>
          cnt.sync = EvaluatedAttempts
    /\ (ppc = "done" /\ hist # <<>> /\ hist[Len(hist)] = "in") =>
          /\ cnt.sync = Len(hist)
          /\ telescope.ra = deg2hr(solution.ra)
          /\ telescope.dec = solution.dec
    /\ cnt.sync <= SolvedAttempts
C11_Witness ==
    /\ ppc = "done"
    /\ hist = <<"out", "in">>
    /\ cnt.sync = 2
    /\ plate_solved
    /\ solution = Solved(1, 2)
    /\ telescope.ra = deg2hr(1)
    /\ telescope.dec = 2

\* The keys of the table of _get_upload_args, and its row for a key.
RecognizedKeys == { UploadKeys[k][1] : k \in DOMAIN UploadKeys }
RowOf(key) == CHOOSE k \in DOMAIN UploadKeys : UploadKeys[k][1] = key
DefaultOf(key) == UploadKeys[RowOf(key)][2]
TypOf(key) == UploadKeys[RowOf(key)][3]
DefaultedKeys == { key \in RecognizedKeys : DefaultOf(key) # None }
\* The supplied recognized keys, and those whose value typ() refuses.
SuppliedKeys == DOMAIN hints \cap RecognizedKeys
RefusedKeys ==
    { key \in SuppliedKeys : PyConv(TypOf(key), hints[key]).t = "raise" }

\* C12 as claimed: for every set of supplied hints the argument object
\* holds exactly the supplied recognized keys, each with its supplied value,
\* and the three defaults "d", "d", "y" where not supplied.
C12_SuppliedValuesAndDefaults ==
    upargs # NotCalled =>
        /\ ~IsRaised(upargs)
        /\ DOMAIN upargs = SuppliedKeys \cup DefaultedKeys
        /\ \A key \in SuppliedKeys : upargs[key] = hints[key]
        /\ \A key \in DefaultedKeys \ SuppliedKeys :
              upargs[key] = PyStr(DefaultOf(key))

\* C12, amended: when typ() accepts every supplied recognized value, the
\* argument object holds exactly the supplied recognized keys, each with
\* its value converted by the key's typ (the supplied value itself when it
\* is of that type already), and the three defaults where not supplied;
\* unsupplied keys without default and unrecognized keys are absent.  When
\* typ() refuses a supplied value the call raises and builds no object.
C12_ConvertedValuesAndDefaults ==
    upargs # NotCalled =>
        IF RefusedKeys # {}
        THEN /\ IsRaised(upargs)
             /\ upargs.raised.s \in {"ValueError", "TypeError"}
        ELSE /\ ~IsRaised(upargs)
             /\ DOMAIN upargs = SuppliedKeys \cup DefaultedKeys
             /\ \A key \in SuppliedKeys :
                   /\ upargs[key] = PyConv(TypOf(key), hints[key])
                   /\ upargs[key].t = TypOf(key)
                   /\ hints[key].t = TypOf(key) => upargs[key] = hints[key]
             /\ upargs["allow_commercial_use"] =
                   IF "allow_commercial_use" \in DOMAIN hints
                   THEN PyConv("str", hints["allow_commercial_use"])
                   ELSE PyStr("d")
             /\ upargs["allow_modifications"] = PyStr("d")
             /\ upargs["publicly_visible"] =
                   IF "publicly_visible" \in DOMAIN hints
                   THEN PyConv("str", hints["publicly_visible"])
                   ELSE PyStr("y")
             /\ "bogus" \notin DOMAIN upargs
C12_Witness ==
    /\ hints = [parity |-> PyFloat(3), bogus |-> PyInt(2)]
    /\ upargs = [allow_commercial_use |-> PyStr("d"),
                 allow_modifications |-> PyStr("d"),
                 publicly_visible |-> PyStr("y"),
                 parity |-> PyInt(1)]

\* The event just before event k of this invocation, None for the first.
Before(k) == IF k = 1 THEN None ELSE trace[k - 1]

\* C13 as claimed: in every attempt the slew comes first, then the
\* exposure, then the solve, then the evaluation (error computation and
\* tolerance decision), and only after the evaluation the sync of the
\* attempt or the slew of the next one.
C13_SyncAfterEvaluation ==
    \A k \in DOMAIN trace :
        /\ trace[k] = "slew"   => Before(k) \in {None, "decide", "sync"}
        /\ trace[k] = "expose" => Before(k) = "slew"
        /\ trace[k] = "solve"  => Before(k) = "expose"
        /\ trace[k] = "error"  => Before(k) = "solve"
        /\ trace[k] = "decide" => Before(k) = "error"
        /\ trace[k] = "sync"   => Before(k) = "decide"

\* C13, amended: in every attempt the slew comes first, then the exposure,
\* then the solve, then the error computation, then the sync of the
\* attempt, then the tolerance decision, and only after the decision the
\* slew of the next attempt.
C13_SyncBeforeDecision ==
    \A k \in DOMAIN trace :
        /\ trace[k] = "slew"   => Before(k) \in {None, "decide"}
        /\ trace[k] = "expose" => Before(k) = "slew"
        /\ trace[k] = "solve"  => Before(k) = "expose"
        /\ trace[k] = "error"  => Before(k) = "solve"
        /\ trace[k] = "sync"   => Before(k) = "error"
        /\ trace[k] = "decide" => Before(k) = "sync"
C13_Witness ==
    /\ ppc = "done"
    /\ hist = <<"out", "in">>
    /\ trace = <<"slew", "expose", "solve", "error", "sync", "decide",
                 "slew", "expose", "solve", "error", "sync", "decide">>

\* C14: when the solver call of attempt i raises TimeoutError and i is less
\* than the attempt budget, the solver call is not repeated within the
\* attempt and plate_solve goes on to the slew of attempt i+1 (which the
\* mount's status check may still refuse).
C14_TimeoutEndsOnlyAttempt ==
    ( /\ hist # <<>>
      /\ hist[Len(hist)] = "raise"
      /\ solution = SolveRaise("TimeoutError")
      /\ Len(hist) < attempts
      /\ cnt.slew = Len(hist) ) =>
        /\ cnt.solve = Len(hist)
        /\ \/ ppc = "slew" /\ i = Len(hist)
           \/ ppc = "raised" /\ pexc = "AssertionError"

\* A take_image call was made in this invocation.
ShotTaken == shot.exc # "<no call>"
\* Its exposure was started and the camera did not report image-ready
\* before the per-exposure timeout.
ShotTimedOut == ShotTaken /\ shot.available /\ ~shot.ready

\* C15 as claimed: a timed-out exposure is aborted exactly when the camera
\* supports abort, saves no image and fails with CameraError; an
\* unavailable camera (not connected or not idle) fails with CameraError
\* without an exposure being started.
C15_TimeoutRaisesCameraError ==
    /\ ShotTimedOut =>
          /\ shot.started
          /\ shot.aborted <=> camera.CanAbortExposure
          /\ ~shot.saved
          /\ shot.exc = "CameraError"
          /\ ppc = "raised" /\ pexc = "CameraError"
    /\ (ShotTaken /\ ~shot.available) =>
          /\ ~shot.started /\ ~shot.aborted /\ ~shot.saved
          /\ shot.exc = "CameraError"
          /\ ppc = "raised" /\ pexc = "CameraError"

\* C15, amended: a timed-out exposure is aborted exactly when the camera
\* supports abort, saves no image and fails with TimeoutError; an
\* unavailable camera fails with CameraError without an exposure being
\* started; either exception leaves plate_solve.
C15_TimeoutRaisesTimeoutError ==
    /\ ShotTimedOut =>
          /\ shot.started
          /\ shot.aborted <=> camera.CanAbortExposure
          /\ ~shot.saved
          /\ shot.exc = "TimeoutError"
          /\ ppc = "raised" /\ pexc = "TimeoutError"
          /\ cnt.abort = (IF camera.CanAbortExposure THEN 1 ELSE 0)
          /\ cnt.save = cnt.expose - 1
    /\ (ShotTaken /\ ~shot.available) =>
          /\ ~shot.started /\ ~shot.aborted /\ ~shot.saved
          /\ shot.exc = "CameraError"
          /\ ppc = "raised" /\ pexc = "CameraError"
          /\ cnt.abort = 0
          /\ cnt.save = cnt.expose
C15_Witness ==
    /\ ShotTimedOut
    /\ camera.CanAbortExposure
    /\ shot.aborted
    /\ cnt.abort = 1
    /\ cnt.expose = 2
    /\ cnt.save = 1
    /\ pexc = "TimeoutError"

\* C16: whenever a slew or sync command was issued to the mount, at the
\* checks made just before it the mount was not slewing and supported
\* parking, slewing, syncing and tracking control (so SyncToCoordinates
\* never goes to a mount whose CanSync is false), and the call raises after
\* the command exactly when the capability checks made again then fail.
C16_MountGuard ==
    (mountCmd.op \in {"slew", "sync"} /\ mountCmd.issued) =>
        /\ ~mountCmd.slewing
        /\ mountCmd.CanPark /\ mountCmd.CanSlew
        /\ mountCmd.CanSync /\ mountCmd.CanSetTracking
        /\ mountCmd.exc = "AssertionError" <=> ~StatusPost(telescope)

\* The plain distance of two coordinates, whichever is subtracted.
Apart(x, y) == IF x >= y THEN x - y ELSE y - x

\* C17: the attempt is converged exactly when the right ascensions are at
\* most tol apart and the declinations are at most tol apart, each axis on
\* its own and with the bound included; the error pair is the per-axis
\* distance whichever of target and solution is subtracted; and right
\* ascensions on the two sides of 360 are as far apart as their plain
\* difference says, not as the shorter way round.
C17_ConvergenceTest ==
    tolOut # NotCalled =>
        /\ tolOut.ok <=> /\ Apart(tolIn.target.ra, tolIn.ra) <= tolIn.tol
                         /\ Apart(tolIn.target.dec, tolIn.dec) <= tolIn.tol
        /\ tolOut.error = <<Apart(tolIn.target.ra, tolIn.ra),
                            Apart(tolIn.target.dec, tolIn.dec)>>
        /\ tolOut.error = <<Apart(tolIn.ra, tolIn.target.ra),
                            Apart(tolIn.dec, tolIn.target.dec)>>
        /\ (tolOut.error[1] = tolIn.tol /\ tolOut.error[2] = tolIn.tol)
              => tolOut.ok
        /\ (tolOut.error[1] > tolIn.tol \/ tolOut.error[2] > tolIn.tol)
              => ~tolOut.ok
        /\ (tolIn.target.ra <= RaSpan /\ tolIn.ra >= FullCircle - RaSpan) =>
              /\ tolOut.error[1] = tolIn.ra - tolIn.target.ra
              /\ tolOut.error[1] > MaxTol
              /\ ~tolOut.ok
C17_Witness ==
    /\ tolIn = [ra |-> 359, dec |-> -1, target |-> [ra |-> 0, dec |-> 0],
                tol |-> 1]
    /\ tolOut = [error |-> <<359, 1>>, ok |-> FALSE]

\* solve_web has ended in one of the poller's three outcomes.
PollerEnded ==
    \/ spc = "done" /\ sres.kind = "solution"
    \/ spc = "done" /\ sres = SolveNone
    \/ spc = "raised" /\ sres = SolveRaise("TimeoutError")

\* C18: once the upload has succeeded and the poll loop is entered, the
\* run eventually ends with a solution, with None or with TimeoutError,
\* whatever the service answers (empty job lists, null job ids, solving
\* for ever, unknown statuses).
C18_PollerTerminates == (spc = "poll_check") ~> PollerEnded
C18_Witness ==
    /\ spc = "raised"
    /\ sres = SolveRaise("TimeoutError")
    /\ status = "solving"
    /\ gets = [sub |-> 1, job |-> 1, info |-> 0]
    /\ now - start > TIMEOUT

\* The evaluation of the running attempt finds the solution within
\* tolerance on both axes.
Converging ==
    /\ ppc = "eval"
    /\ Abs(target.ra - solution.ra) <= tol
    /\ Abs(target.dec - solution.dec) <= tol

\* C19: the plate-solved flag starts false, no step of any Session method
\* takes it from true to false, and the only step that takes it from false
\* to true is the evaluation of a plate_solve attempt that is within
\* tolerance, after which plate_solve returns.
C19_FlagMonotone ==
    /\ (calls = 0 /\ ppc = "idle") => ~plate_solved
    /\ [][ /\ plate_solved => plate_solved'
           /\ (~plate_solved /\ plate_solved') => (Converging /\ ppc' = "done")
         ]_vars
C19_Witness ==
    /\ calls = 2
    /\ sessOp.op = "plate_solve"
    /\ flagAtCall
    /\ ppc = "raised"
    /\ pexc = "TimeoutError"
    /\ hist = <<"out", "raise">>
    /\ plate_solved

\* C20: every iteration of the poll loop polls the submission status
\* first, also once a job id is known, and the job polled is the first
\* entry of the job list just received: a job-status poll is only made
\* after the submission-status poll of its iteration gave a populated list
\* and goes to that list's first id, whatever job was polled before; with
\* N empty/null job lists and M answers `solving` before a terminal job
\* status, the run has made N+M+1 submission-status polls and M+1
\* job-status polls.
C20_SubmissionPolledEveryIteration ==
    /\ spc = "get_job" =>
          /\ lastGet = RequestsGet("submissions", subid)
          /\ lastAns.jobs # <<>>
          /\ lastAns.jobs[1] # None
          /\ jobid = lastAns.jobs[1]
          /\ gets.sub = emptyCnt + solvingCnt + 1
    /\ lastGet.kind = "jobs" => lastGet.id = jobid
    /\ (status \notin {None, "solving"} /\ gets.info = 0) =>
          /\ gets.sub = emptyCnt + solvingCnt + 1
          /\ gets.job = solvingCnt + 1
    /\ spc \in {"sleep", "poll_check", "get_sub"} =>
          /\ gets.sub = emptyCnt + solvingCnt
          /\ gets.job = solvingCnt
C20_Witness ==
    /\ spc = "done"
    /\ sres = SolveNone
    /\ status = "failure"
    /\ emptyCnt = 1
    /\ solvingCnt = 2
    /\ gets = [sub |-> 4, job |-> 3, info |-> 0]
    /\ firstJob = "job1"
    /\ lastGet = RequestsGet("jobs", "job2")

====
